---- MODULE Spec2Model ----
(***************************************************************************)
(* Cyclic days-off workforce scheduler of logistics_classification.ipynb:  *)
(* the notebook cells that build the circular day lists, the integer       *)
(* program (one variable per cohort start day, one coverage constraint per *)
(* day), solve it with PuLP, and project the solution onto a cohort x day  *)
(* matrix.  Python lists are modelled as sequences; At(list, i) is the     *)
(* zero-based subscript list[i].                                           *)
(***************************************************************************)
EXTENDS Integers, Sequences, FiniteSets, TLC

VARIABLES pc, n_staff, prob, status, varValue, dct_work, dict_sch, total, error,
          prev_staff

vars == <<pc, n_staff, prob, status, varValue, dct_work, dict_sch, total, error,
          prev_staff>>

(***************************************************************************)
(* Bounds of the model (not program constants).                            *)
(***************************************************************************)
\* largest entry of the enumerated demand vectors
MaxDemand == 1

\* largest per-cohort headcount of the exhaustively enumerated assignments
MaxHead == 1

(***************************************************************************)
(* Program constants.                                                      *)
(***************************************************************************)
\* range(7): days of the week
NumDays == 7

\* ncycles(n_days, 3): the circular list is the week three times over
NumCycles == 3

\* range(i, i + 5): working days of the cohort starting on day i
WorkSpan == 5

\* range(i + 1, i + 3): first offset of the exclusion window
ExclFrom == 1

\* range(i + 1, i + 3): end offset (exclusive) of the exclusion window
ExclTo == 3

\* LpVariable.dicts(..., lowBound=0, cat='Integer')
lowBound == 0

(***************************************************************************)
(* Python helpers.                                                         *)
(***************************************************************************)
\* list[i] with Python's zero-based index
At(list, i) == list[i + 1]

\* list(range(a, b))
PyRange(a, b) == [k \in 1..(IF b > a THEN b - a ELSE 0) |-> a + k - 1]

\* v in list
InList(v, list) == \E k \in DOMAIN list : list[k] = v

\* min(a, b)
Min2(a, b) == IF a <= b THEN a ELSE b

\* sum(list[:n])
RECURSIVE SumFirst(_, _)
SumFirst(list, n) == IF n = 0 THEN 0 ELSE list[n] + SumFirst(list, n - 1)

\* sum of a list of integers
SumSeq(list) == SumFirst(list, Len(list))

\* ncycles(iterable, n): the sequence elements n times
RECURSIVE ncycles(_, _)
ncycles(iterable, n) == IF n = 0 THEN <<>> ELSE iterable \o ncycles(iterable, n - 1)

(***************************************************************************)
(* Circular day lists (cells 32, 34, 35).                                  *)
(***************************************************************************)
n_days == PyRange(0, NumDays)

n_days_c == ncycles(n_days, NumCycles)

\* list_in with the window one day short: range(i, i + 4)
list_in_short ==
  [k \in DOMAIN n_days_c |->
     LET r == PyRange(n_days_c[k], n_days_c[k] + WorkSpan - 1)
     IN  [m \in DOMAIN r |-> At(n_days_c, r[m])]]

\* [[n_days_c[j] for j in range(i, i + 5)] for i in n_days_c]
list_in ==
  [k \in DOMAIN n_days_c |->
     LET r == PyRange(n_days_c[k], n_days_c[k] + WorkSpan)
     IN  [m \in DOMAIN r |-> At(n_days_c, r[m])]]

\* list_excl with the window starting on the day itself: range(i, i + 2)
list_excl_shifted ==
  [k \in DOMAIN n_days_c |->
     LET r == PyRange(n_days_c[k], n_days_c[k] + ExclTo - 1)
     IN  [m \in DOMAIN r |-> At(n_days_c, r[m])]]

\* list_excl with a window of one day: range(i + 1, i + 2)
list_excl_narrow ==
  [k \in DOMAIN n_days_c |->
     LET r == PyRange(n_days_c[k] + ExclFrom, n_days_c[k] + ExclTo - 1)
     IN  [m \in DOMAIN r |-> At(n_days_c, r[m])]]

\* list_excl with a window as long as the week: range(i, i + 7)
list_excl_all ==
  [k \in DOMAIN n_days_c |->
     LET r == PyRange(n_days_c[k], n_days_c[k] + NumDays)
     IN  [m \in DOMAIN r |-> At(n_days_c, r[m])]]

\* [[n_days_c[j] for j in range(i + 1, i + 3)] for i in n_days_c]
list_excl ==
  [k \in DOMAIN n_days_c |->
     LET r == PyRange(n_days_c[k] + ExclFrom, n_days_c[k] + ExclTo)
     IN  [m \in DOMAIN r |-> At(n_days_c, r[m])]]

(***************************************************************************)
(* Inputs: the demand cell (n_staff).                                      *)
(***************************************************************************)
\* n_staff = [31,45,40,40,48,30,20]
Scenario == <<31, 45, 40, 40, 48, 30, 20>>

\* demand vectors of 7 entries in 0..MaxDemand
SmallDemands == [1..NumDays -> 0..MaxDemand]

\* vectors the notebook is never meant to accept: too short, too long,
\* a negative entry
BadDemands ==
  { <<1, 1, 1, 1, 1, 1>>,
    <<1, 0, 1, 0, 1, 0, 1, 1>>,
    <<1, -1, 0, 1, 0, 0, 1>> }

DemandInputs == SmallDemands \cup {Scenario} \cup BadDemands

\* the vectors a later run of the notebook is given: no demand, the largest
\* enumerated demand on every day, and a vector that is too short
NextDemands ==
  { [k \in 1..NumDays |-> 0],
    [k \in 1..NumDays |-> MaxDemand],
    <<1, 1, 1, 1, 1, 1>> }

\* the vectors of a run that is followed by another run
RerunFrom == NextDemands \cup {Scenario}

(***************************************************************************)
(* Model construction (cell 36).                                           *)
(***************************************************************************)
\* the constraint one short of the demand: >= staff - 1
Constraint_loose(l_excl, staff) ==
  [expr |-> SelectSeq(n_days, LAMBDA i : ~InList(i, l_excl)), rhs |-> staff - 1]

\* the constraint with > in place of >= (over integers: >= staff + 1)
Constraint_strict(l_excl, staff) ==
  [expr |-> SelectSeq(n_days, LAMBDA i : ~InList(i, l_excl)), rhs |-> staff + 1]

\* lpSum([x[i] for i in n_days if i not in l_excl]) >= staff
Constraint(l_excl, staff) ==
  [expr |-> SelectSeq(n_days, LAMBDA i : ~InList(i, l_excl)), rhs |-> staff]

\* the loop stopping one triple early
ZipLen_short(demand) == Min2(Len(n_days), Min2(Len(list_excl), Len(demand))) - 1

\* for d, l_excl, staff in zip(n_days, list_excl, n_staff): zip stops at the
\* shortest of its arguments
ZipLen(demand) == Min2(Len(n_days), Min2(Len(list_excl), Len(demand)))

\* prob after the cell: objective lpSum([x[i] for i in n_days]) and one
\* constraint per zipped triple
LpProblem(demand) ==
  [objective   |-> n_days,
   constraints |-> [k \in 1..ZipLen(demand) |-> Constraint(list_excl[k], demand[k])]]

\* the cell adding its constraints to the prob of the run before
Rebuilt_kept(old, demand) ==
  [objective   |-> LpProblem(demand).objective,
   constraints |-> old.constraints \o LpProblem(demand).constraints]

\* prob = LpProblem("Workforce scheduling", LpMinimize) binds the name to a
\* new problem: nothing of the prob of an earlier run is kept
Rebuilt(old, demand) == LpProblem(demand)

\* prob before the cell has run
NoProblem == [objective |-> <<>>, constraints |-> <<>>]

\* value of a linear expression (a list of variable keys) under assignment x
lpSum(keys, x) == SumSeq([k \in DOMAIN keys |-> x[keys[k]]])

(***************************************************************************)
(* The solver behind prob.solve() (cell 37): an external integer-program   *)
(* solver.  It is modelled by what it returns: with status Optimal, any    *)
(* assignment of integers >= lowBound that satisfies every constraint of   *)
(* prob and has the least objective value.  The least value is found by    *)
(* trying budgets T = 0, 1, 2, ... and, for each, enumerating the          *)
(* assignments of total <= T one variable at a time, from the last         *)
(* variable to the first, dropping a partial assignment as soon as some    *)
(* constraint can no longer be met.                                        *)
(***************************************************************************)
\* x satisfies every constraint of p and the variables' lower bound
Feasible(p, x) ==
  /\ \A i \in DOMAIN x : x[i] >= lowBound
  /\ \A m \in DOMAIN p.constraints :
       lpSum(p.constraints[m].expr, x) >= p.constraints[m].rhs

\* keys of the decision variables of p
Keys(p) == {p.objective[j] : j \in DOMAIN p.objective}

\* a partial assignment part holds the values of the last Len(part)
\* variables: part[j] is the value of variable Len(p.objective) - j
Assigned(p, part, i) == i >= Len(p.objective) - Len(part)

ValueOf(p, part, i) == part[Len(p.objective) - i]

\* the assigned part of the first m terms of constraint c
RECURSIVE AssignedSum(_, _, _, _)
AssignedSum(p, c, part, m) ==
  IF m = 0 THEN 0
  ELSE (IF Assigned(p, part, c.expr[m]) THEN ValueOf(p, part, c.expr[m]) ELSE 0)
       + AssignedSum(p, c, part, m - 1)

\* the most constraint c can still reach with `left` headcount to hand out:
\* the assigned part of its sum, plus all of `left` if one of its variables
\* is still open
Optimistic(p, c, part, left) ==
  AssignedSum(p, c, part, Len(c.expr))
    + (IF \E m \in DOMAIN c.expr : ~Assigned(p, part, c.expr[m]) THEN left ELSE 0)

Viable(p, part, left) ==
  /\ left >= 0
  /\ \A m \in DOMAIN p.constraints :
       Optimistic(p, p.constraints[m], part, left) >= p.constraints[m].rhs

\* the complete assignments that extend part, spend at most `left` more and
\* satisfy p
RECURSIVE Completions(_, _, _)
Completions(p, left, part) ==
  IF ~Viable(p, part, left) THEN {}
  ELSE IF Len(part) = Len(p.objective) THEN {part}
  ELSE UNION {Completions(p, left - v, Append(part, v)) : v \in lowBound..left}

\* every assignment of total <= T that satisfies p
FeasibleWithin(p, T) ==
  {[i \in Keys(p) |-> ValueOf(p, q, i)] : q \in Completions(p, T, <<>>)}

RECURSIVE Optima(_, _)
Optima(p, T) ==
  LET found == FeasibleWithin(p, T)
  IN  IF found # {} THEN found ELSE Optima(p, T + 1)

\* the assignments the solver may return with status Optimal
OptimalSet(p) == Optima(p, 0)

\* pulp.LpStatus values of a run that did not end Optimal although the
\* program is feasible and bounded: the solver stopped or failed
FailureStatus == {"Not Solved", "Undefined"}

\* no variable has a value (varValue is None)
NoValues == [i \in {} |-> 0]

\* {} : an empty dict
EmptyMap == [i \in {} |-> 0]

\* the values PuLP assigns when the solver wrote no usable solution
DefaultValues(p) == [i \in Keys(p) |-> 0]

(***************************************************************************)
(* Report (cell 37, second half) and total (cell 39).                      *)
(***************************************************************************)
\* int(v.name[-1]): the last character of the variable's name 'shift__<i>'
NameKey(i) == i % 10

\* dct_work[int(v.name[-1])] = int(v.varValue) for v in prob.variables()
Workers(p, x) ==
  [d \in {NameKey(i) : i \in Keys(p)} |->
     x[CHOOSE i \in Keys(p) : NameKey(i) = d]]

\* dict_sch[day] = [dct_work[day] if i in list_in[day] else 0 for i in n_days]
Schedule(work) ==
  [day \in DOMAIN work |->
     [k \in DOMAIN n_days |->
        IF InList(n_days[k], At(list_in, day)) THEN work[day] ELSE 0]]

\* pulp.value(prob.objective)
ObjectiveValue(p, x) == lpSum(p.objective, x)

(***************************************************************************)
(* The notebook as a state machine: one action per cell (outcome).         *)
(***************************************************************************)
Init ==
  /\ pc = "params"
  /\ n_staff \in DemandInputs
  /\ prob = NoProblem
  /\ status = "unset"
  /\ varValue = NoValues
  /\ dct_work = EmptyMap
  /\ dict_sch = EmptyMap
  /\ total = <<>>
  /\ error = "none"
  /\ prev_staff = <<>>

\* cell 36
BuildModel ==
  /\ pc = "params"
  /\ prob' = Rebuilt(prob, n_staff)
  /\ varValue' = NoValues
  /\ pc' = "built"
  /\ UNCHANGED <<n_staff, status, dct_work, dict_sch, total, error, prev_staff>>

\* cell 37 once prob.solve() has returned st with variable values x
Report(st, x) ==
  /\ status' = st
  /\ varValue' = x
  /\ dct_work' = Workers(prob, x)
  /\ dict_sch' = Schedule(Workers(prob, x))
  /\ pc' = "solved"
  /\ UNCHANGED <<n_staff, prob, total, error, prev_staff>>

\* cell 37, the solver finds an optimum
SolveOptimal ==
  /\ pc = "built"
  /\ \E x \in OptimalSet(prob) : Report("Optimal", x)

\* cell 37, the solver ends without an optimum and the variables hold numbers
SolveFailed ==
  /\ pc = "built"
  /\ \E st \in FailureStatus : Report(st, DefaultValues(prob))

\* cell 37, the solver ends without an optimum and the variables hold None:
\* int(None) raises TypeError after dct_work = {}
SolveNoValues ==
  /\ pc = "built"
  /\ \E st \in FailureStatus : status' = st
  /\ varValue' = NoValues
  /\ dct_work' = EmptyMap
  /\ error' = "TypeError"
  /\ pc' = "error"
  /\ UNCHANGED <<n_staff, prob, dict_sch, total, prev_staff>>

\* cell 37, prob.solve() raises PulpSolverError (no solver to run)
SolveRaises ==
  /\ pc = "built"
  /\ error' = "PulpSolverError"
  /\ pc' = "error"
  /\ UNCHANGED <<n_staff, prob, status, varValue, dct_work, dict_sch, total, prev_staff>>

\* cell 39
PrintTotal ==
  /\ pc = "solved"
  /\ total' = <<ObjectiveValue(prob, varValue)>>
  /\ pc' = "printed"
  /\ UNCHANGED <<n_staff, prob, status, varValue, dct_work, dict_sch, error, prev_staff>>

\* the demand cell (cell 31) run again in the same kernel, after a run that
\* printed its total or stopped on an exception: n_staff is rebound, every
\* other global keeps the value the earlier run left.  prev_staff records
\* the vector of the run before.
Rerun ==
  /\ pc \in {"printed", "error"}
  /\ n_staff \in RerunFrom
  /\ \E v \in NextDemands : n_staff' = v
  /\ prev_staff' = n_staff
  /\ error' = "none"
  /\ pc' = "params"
  /\ UNCHANGED <<prob, status, varValue, dct_work, dict_sch, total>>

Next ==
  \/ Rerun
  \/ BuildModel
  \/ SolveOptimal
  \/ SolveFailed
  \/ SolveNoValues
  \/ SolveRaises
  \/ PrintTotal

Spec == Init /\ [][Next]_vars

(***************************************************************************)
(* Vocabulary of the properties.                                           *)
(***************************************************************************)
Cohorts == 0..6

Weekdays == 0..6

\* a demand vector: 7 non-negative integers
ValidDemand(v) == Len(v) = 7 /\ \A k \in DOMAIN v : v[k] >= 0

\* the days the cohort starting on day s works: s, s+1, ..., s+4 (mod 7)
on_duty_days(s) == {(s + k) % 7 : k \in 0..4}

\* the two days the cohort starting on day s rests
off_duty_days(s) == {(s + 5) % 7, (s + 6) % 7}

\* sum of x[s] over the cohorts s <= upto that are on duty on day d
RECURSIVE OnDutyUpTo(_, _, _)
OnDutyUpTo(x, d, upto) ==
  IF upto < 0 THEN 0
  ELSE (IF d \in on_duty_days(upto) THEN x[upto] ELSE 0) + OnDutyUpTo(x, d, upto - 1)

\* on-duty headcount of day d under assignment x
OnDuty(x, d) == OnDutyUpTo(x, d, 6)

\* x[0] + ... + x[upto]
RECURSIVE HeadUpTo(_, _)
HeadUpTo(x, upto) == IF upto < 0 THEN 0 ELSE x[upto] + HeadUpTo(x, upto - 1)

Headcount(x) == HeadUpTo(x, 6)

\* ceil(a / b) for b > 0
Ceil(a, b) == (a + b - 1) \div b

\* cell 37 has run to its end
Reported == pc \in {"solved", "printed"}

ReturnedOptimal == Reported /\ status = "Optimal"

\* every assignment with one headcount in 0..MaxHead per cohort
Assignments == [Cohorts -> 0..MaxHead]

(***************************************************************************)
(* Validation of the solver model: on every built problem, and up to a     *)
(* total of 2 * MaxDemand + 1, the pruned enumeration finds exactly the    *)
(* assignments that plain enumeration of [Cohorts -> 0..MaxHead] finds     *)
(* feasible, and every returned optimum is feasible with no enumerated     *)
(* assignment below it.                                                    *)
(***************************************************************************)
SearchAgreesWithEnumeration ==
  /\ pc = "built" =>
       {x \in FeasibleWithin(prob, 2 * MaxDemand + 1) : \A s \in Cohorts : x[s] <= MaxHead}
          = {x \in Assignments : Feasible(prob, x) /\ Headcount(x) <= 2 * MaxDemand + 1}
  /\ (pc = "solved" /\ status = "Optimal") =>
       /\ Feasible(prob, varValue)
       /\ \A x \in Assignments :
            Feasible(prob, x) => Headcount(x) >= Headcount(varValue)

(***************************************************************************)
(* C1  Coverage invariant: for every demand vector of 7 non-negative       *)
(* integers, every assignment returned as optimal gives one non-negative   *)
(* integer per cohort start day 0..6 and, on every day d, the cohorts on   *)
(* duty that day (d in on_duty_days(s)) sum to at least demand[d].         *)
(***************************************************************************)
CoverageInvariant ==
  (ReturnedOptimal /\ ValidDemand(n_staff)) =>
     /\ DOMAIN varValue = Cohorts
     /\ \A s \in Cohorts : varValue[s] \in Nat
     /\ \A d \in Weekdays : OnDuty(varValue, d) >= At(n_staff, d)

\* an optimum of a demand vector with a positive entry, covered to the unit
CoverageWitness ==
  /\ ReturnedOptimal /\ ValidDemand(n_staff)
  /\ \E d \in Weekdays : At(n_staff, d) > 0 /\ OnDuty(varValue, d) = At(n_staff, d)
  /\ \E d \in Weekdays : OnDuty(varValue, d) > At(n_staff, d)

(***************************************************************************)
(* C2  Concrete scenario: for demand [31, 45, 40, 40, 48, 30, 20] the      *)
(* least total headcount over the assignments that satisfy the seven       *)
(* constraints the notebook builds is 51: no assignment of total <= 50     *)
(* satisfies them, one of total 51 does, and 51 is what the run reports.   *)
(***************************************************************************)
ScenarioMinimum ==
  n_staff = Scenario =>
     /\ pc = "built" =>
          /\ Len(prob.constraints) = 7
          /\ FeasibleWithin(prob, 50) = {}
          /\ \E x \in FeasibleWithin(prob, 51) : Feasible(prob, x) /\ Headcount(x) = 51
     /\ ReturnedOptimal => Feasible(prob, varValue) /\ Headcount(varValue) = 51
     /\ (pc = "printed" /\ status = "Optimal") => total = <<51>>

\* the run of the scenario that ends with the recorded schedule
ScenarioWitness ==
  /\ n_staff = Scenario /\ pc = "printed" /\ status = "Optimal"
  /\ total = <<51>>
  /\ dct_work = [s \in Cohorts |-> <<17, 14, 6, 0, 11, 0, 3>>[s + 1]]

(***************************************************************************)
(* C3  Matrix consistency: the report builds a 7 x 7 matrix with           *)
(* matrix[s][d] = solution[s] when d is in on_duty_days(s) and 0           *)
(* otherwise, and the total it prints is the sum of solution[s].           *)
(***************************************************************************)
MatrixConsistency ==
  /\ Reported =>
       /\ DOMAIN dct_work = Cohorts
       /\ DOMAIN dict_sch = Cohorts
       /\ \A s \in Cohorts :
            /\ Len(dict_sch[s]) = 7
            /\ \A d \in Weekdays :
                 At(dict_sch[s], d) = IF d \in on_duty_days(s) THEN dct_work[s] ELSE 0
  /\ pc = "printed" => total = <<Headcount(dct_work)>>

\* a printed report with a working cohort: cells of both kinds
MatrixWitness ==
  /\ pc = "printed"
  /\ \E s \in Cohorts, d, e \in Weekdays :
       /\ dct_work[s] > 0
       /\ At(dict_sch[s], d) = dct_work[s]
       /\ At(dict_sch[s], e) = 0
  /\ total = <<Headcount(dct_work)>> /\ total[1] > 0

(***************************************************************************)
(* C4  Binding days of the scenario: every optimal assignment for demand   *)
(* [31, 45, 40, 40, 48, 30, 20] has total 51, covers every day, and covers *)
(* Tuesday (day 1) with exactly 45 and Friday (day 4) with exactly 48.     *)
(***************************************************************************)
BindingDays ==
  (n_staff = Scenario /\ ReturnedOptimal) =>
     /\ Headcount(varValue) = 51
     /\ \A d \in Weekdays : OnDuty(varValue, d) >= At(Scenario, d)
     /\ OnDuty(varValue, 1) = 45
     /\ OnDuty(varValue, 4) = 48

\* an optimum of the scenario other than the recorded one
BindingWitness ==
  /\ n_staff = Scenario /\ ReturnedOptimal
  /\ varValue # [s \in Cohorts |-> <<17, 14, 6, 0, 11, 0, 3>>[s + 1]]
  /\ OnDuty(varValue, 1) = 45 /\ OnDuty(varValue, 4) = 48
  /\ \E d \in Weekdays : OnDuty(varValue, d) > At(Scenario, d)

(***************************************************************************)
(* C5  Optimality lower bound: for every demand vector of 7 non-negative   *)
(* integers, every assignment that satisfies the seven constraints has     *)
(* total headcount >= ceil(sum(demand) / 5).                               *)
(***************************************************************************)
LowerBound ==
  ValidDemand(n_staff) =>
     /\ pc = "built" =>
          /\ FeasibleWithin(prob, Ceil(SumSeq(n_staff), 5) - 1) = {}
          /\ \A x \in Assignments :
               Headcount(x) < Ceil(SumSeq(n_staff), 5) => ~Feasible(prob, x)
     /\ ReturnedOptimal => Headcount(varValue) >= Ceil(SumSeq(n_staff), 5)

\* an optimum that meets the bound with demand on every day
LowerBoundWitness ==
  /\ ReturnedOptimal /\ ValidDemand(n_staff)
  /\ \A d \in Weekdays : At(n_staff, d) > 0
  /\ Headcount(varValue) = Ceil(SumSeq(n_staff), 5)

(***************************************************************************)
(* C6  Demand validation is fail-fast: a demand vector whose length is     *)
(* not 7, or that has a negative entry, is rejected before any variable    *)
(* or constraint is created: no model is built, no solve is attempted, no  *)
(* schedule is produced.                                                   *)
(***************************************************************************)
DemandRejected ==
  ~ValidDemand(n_staff) =>
     /\ pc \in {"params", "error"}
     /\ prob = NoProblem
     /\ status = "unset"
     /\ dct_work = EmptyMap
     /\ dict_sch = EmptyMap
     /\ total = <<>>

(***************************************************************************)
(* C7  No partial schedule on solver failure: when the solve step ends     *)
(* with a status other than Optimal, the run ends in an error and no       *)
(* per-cohort solution, no schedule matrix and no total is produced.       *)
(***************************************************************************)
NoPartialSchedule ==
  (ValidDemand(n_staff) /\ pc # "params" /\ pc # "built" /\ status # "Optimal") =>
     /\ pc = "error"
     /\ error # "none"
     /\ dct_work = EmptyMap
     /\ dict_sch = EmptyMap
     /\ total = <<>>

(***************************************************************************)
(* C8  Degenerate case: for the all-zero demand vector the optimal total   *)
(* headcount is 0, every optimal assignment has x[s] = 0 for every cohort, *)
(* and every cell of the schedule matrix is 0.                             *)
(***************************************************************************)
ZeroDemand ==
  (n_staff = [k \in 1..7 |-> 0] /\ ReturnedOptimal) =>
     /\ \A s \in Cohorts : varValue[s] = 0 /\ dct_work[s] = 0
     /\ Headcount(varValue) = 0
     /\ \A s \in Cohorts, d \in Weekdays : At(dict_sch[s], d) = 0
     /\ pc = "printed" => total = <<0>>

\* the all-zero run, printed
ZeroDemandWitness ==
  /\ n_staff = [k \in 1..7 |-> 0]
  /\ pc = "printed" /\ status = "Optimal"
  /\ DOMAIN dict_sch = Cohorts
  /\ total = <<0>>

(***************************************************************************)
(* C9  The constraint of day d holds exactly the cohorts on duty that day: *)
(* s is not in list_excl[d] iff d is in on_duty_days(s), on_duty_days(s)   *)
(* is the set list_in[s] the matrix is built from, and the excluded        *)
(* cohorts of day d are those whose rest days (s+5) mod 7, (s+6) mod 7     *)
(* include d.                                                              *)
(***************************************************************************)
ExclusionIsRest ==
  /\ \A d \in Weekdays, s \in Cohorts :
       /\ ~InList(s, At(list_excl, d)) <=> d \in on_duty_days(s)
       /\ InList(s, At(list_excl, d)) <=> d \in off_duty_days(s)
       /\ InList(d, At(list_in, s)) <=> d \in on_duty_days(s)
  /\ (pc # "params" /\ Len(n_staff) >= 7) =>
       \A d \in Weekdays :
          {prob.constraints[d + 1].expr[m] : m \in DOMAIN prob.constraints[d + 1].expr}
             = {s \in Cohorts : d \in on_duty_days(s)}

\* a built model whose Monday constraint leaves out the cohorts that start
\* on Tuesday and Wednesday
ExclusionWitness ==
  /\ pc = "built" /\ Len(n_staff) >= 7
  /\ prob.constraints[1].expr = <<0, 3, 4, 5, 6>>
  /\ At(list_excl, 0) = <<1, 2>>

(***************************************************************************)
(* C10  Under the canonical pattern every day is covered by exactly 5      *)
(* cohorts: the model built for a vector of 7 demands has 7 constraints,   *)
(* the constraint of each day sums exactly 5 distinct variables, every     *)
(* variable occurs in exactly 5 constraints, 35 occurrences in all.        *)
(***************************************************************************)
FiveCohortsPerDay ==
  (pc # "params" /\ Len(n_staff) >= 7) =>
     /\ Len(prob.constraints) = 7
     /\ \A m \in DOMAIN prob.constraints :
          /\ Len(prob.constraints[m].expr) = 5
          /\ Cardinality({prob.constraints[m].expr[j] :
                            j \in DOMAIN prob.constraints[m].expr}) = 5
     /\ \A s \in Cohorts :
          Cardinality({m \in DOMAIN prob.constraints :
                         InList(s, prob.constraints[m].expr)}) = 5
     /\ SumSeq([m \in DOMAIN prob.constraints |-> Len(prob.constraints[m].expr)]) = 35

\* the scenario's model: 7 rows, 7 columns
FiveCohortsWitness ==
  /\ pc = "built" /\ n_staff = Scenario
  /\ Len(prob.constraints) = 7
  /\ Len(prob.objective) = 7
  /\ prob.constraints[5].rhs = 48

(***************************************************************************)
(* C11  No persistence across runs: when a later run of the notebook has   *)
(* printed its total, prob holds 7 variables and one coverage constraint   *)
(* per zipped demand entry (exactly 7 for a vector of 7), each built from  *)
(* this run's n_staff, and the solution, the schedule matrix and the total *)
(* are those of this run: nothing of the run before remains.               *)
(***************************************************************************)
NoPersistence ==
  (prev_staff # <<>> /\ pc = "printed") =>
     /\ Keys(prob) = Cohorts /\ Len(prob.objective) = 7
     /\ Len(prob.constraints) = (IF Len(n_staff) >= 7 THEN 7 ELSE Len(n_staff))
     /\ \A k \in DOMAIN prob.constraints :
          /\ prob.constraints[k].rhs = n_staff[k]
          /\ {prob.constraints[k].expr[m] : m \in DOMAIN prob.constraints[k].expr}
                = {s \in Cohorts : (k - 1) \in on_duty_days(s)}
     /\ DOMAIN varValue = Cohorts
     /\ dct_work = [s \in Cohorts |-> varValue[s]]
     /\ status = "Optimal" =>
          \A k \in DOMAIN prob.constraints : OnDuty(varValue, k - 1) >= n_staff[k]
     /\ dict_sch = [s \in Cohorts |->
                      [k \in 1..7 |-> IF (k - 1) \in on_duty_days(s) THEN dct_work[s] ELSE 0]]
     /\ total = <<Headcount(dct_work)>>

\* the scenario's run (total 51) followed by a complete run with no demand
NoPersistenceWitness ==
  /\ prev_staff = Scenario
  /\ n_staff = [k \in 1..7 |-> 0]
  /\ pc = "printed" /\ status = "Optimal"
  /\ Len(prob.constraints) = 7
  /\ total = <<0>>

(***************************************************************************)
(* C12  Infeasible cannot occur under the canonical configuration: for     *)
(* every demand vector of 7 non-negative integers some assignment of       *)
(* non-negative integers satisfies the seven constraints built (putting    *)
(* demand[d] workers on the cohort that starts on day d is one), so the    *)
(* solve step can always return an optimum.                                *)
(***************************************************************************)
AlwaysFeasible ==
  (pc = "built" /\ ValidDemand(n_staff)) =>
     /\ Len(prob.constraints) = 7
     /\ Feasible(prob, [s \in Cohorts |-> At(n_staff, s)])
     /\ OptimalSet(prob) # {}

\* the built model of a non-uniform vector, and a feasible assignment for it
AlwaysFeasibleWitness ==
  /\ pc = "built" /\ prev_staff = <<>>
  /\ n_staff = Scenario
  /\ Feasible(prob, [s \in Cohorts |-> At(Scenario, s)])
  /\ ~Feasible(prob, [s \in Cohorts |-> 0])

====
